---------------------------- MODULE Spec2Model ----------------------------
(***************************************************************************)
(* Model of src/lib.rs: PrefixMatch<Metadata>, a vector of (String,        *)
(* Metadata) pairs with insert (push), reorder (sort_unstable_by sort_cmp) *)
(* and find (binary_search_by find_cmp, then a starts_with boundary walk). *)
(*                                                                         *)
(* A string is a sequence of scalar values; a scalar value is a natural    *)
(* number.  Vector positions are 0-based in the source and 1-based here:   *)
(* source index i is position i + 1 of the sequence.                       *)
(***************************************************************************)
EXTENDS Integers, Sequences, FiniteSets, Bags, TLC

VARIABLES
    items,      \* PrefixMatch::items, a sequence of <<key, metadata>>
    reorders,   \* history: reorder calls since the last insert (saturating)
    inserted,   \* history: bag of the <<key, metadata>> pairs inserted so far
    last,       \* history: the last call and its arguments
    result      \* the Match returned by the last find (range start..end)

vars == <<items, reorders, inserted, last, result>>

-----------------------------------------------------------------------------
(* Bounds of the model *)

MaxKeyLen == 1          \* keys and prefixes hold at most MaxKeyLen scalars

MaxLen == 3             \* entries held by the index under Spec

MaxFindLen == 5         \* entries held by the index under SpecFind

MaxReorderCount == 2    \* saturation of the reorders history counter

\* two scalar values are enough for Less, Equal and Greater to occur
Alphabet == {1, 2}

Keys == UNION {[1..n -> Alphabet] : n \in 0..MaxKeyLen}

\* two metadata values tell entries with the same key apart
Meta == {0, 1}

-----------------------------------------------------------------------------
(* Strings *)

\* char::len_utf8: bytes taken by one scalar value
len_utf8(c) ==
    IF c < 128 THEN 1 ELSE IF c < 2048 THEN 2 ELSE IF c < 65536 THEN 3 ELSE 4

RECURSIVE str_len(_)
\* str::len: the length in bytes, as used on line 14
str_len(s) ==
    IF s = <<>> THEN 0 ELSE len_utf8(Head(s)) + str_len(Tail(s))

\* str::starts_with, as used on lines 57 and 63
starts_with(s, p) ==
    /\ Len(p) <= Len(s)
    /\ \A i \in 1..Len(p) : s[i] = p[i]

Min(x, y) == IF x <= y THEN x ELSE y

RECURSIVE zip_scan(_, _, _)
\* the loop over a.chars().zip(b.chars()) shared by both comparators:
\* the first difference decides, "Equal" when the shorter string runs out
zip_scan(a, b, i) ==
    IF i > Min(Len(a), Len(b)) THEN "Equal"
    ELSE IF a[i] < b[i] THEN "Less"
    ELSE IF a[i] > b[i] THEN "Greater"
    ELSE zip_scan(a, b, i + 1)

\* usize::cmp
usize_cmp(x, y) ==
    IF x < y THEN "Less" ELSE IF x > y THEN "Greater" ELSE "Equal"

\* a comparator that forgets the length tie-break
sort_cmp_no_tiebreak(a, b) == zip_scan(a, b, 1)

\* a comparator whose length tie-break is reversed
sort_cmp_longer_first(a, b) ==
    LET z == zip_scan(a, b, 1)
    IN  IF z # "Equal" THEN z ELSE usize_cmp(str_len(b), str_len(a))

sort_cmp(a, b) ==
    LET z == zip_scan(a, b, 1)
    IN  IF z # "Equal" THEN z ELSE usize_cmp(str_len(a), str_len(b))

find_cmp(a, b) == zip_scan(a, b, 1)

-----------------------------------------------------------------------------
(* Vec::push *)

\* a push that skips a key already stored
push_dedup(v, e) ==
    IF \E i \in 1..Len(v) : v[i][1] = e[1] THEN v ELSE Append(v, e)

push(v, e) == Append(v, e)

-----------------------------------------------------------------------------
(* slice::sort_unstable_by.  For slices of at most 20 elements every       *)
(* release of the standard library runs insertion sort: each element in    *)
(* turn is moved left past the elements it is strictly less than.          *)

\* a closure that also moves an element past its equals
is_less_or_equal(a, b) == sort_cmp(a[1], b[1]) # "Greater"

\* the closure |a, b| sort_cmp(&a.0, &b.0), asked whether it is Less
is_less(a, b) == sort_cmp(a[1], b[1]) = "Less"

RECURSIVE shift_pos(_, _, _)
\* the position left of which the tail element e comes to rest
shift_pos(v, e, j) ==
    IF j >= 1 /\ is_less(e, v[j]) THEN shift_pos(v, e, j - 1) ELSE j

\* a shift that is off by one: it loses an element and keeps a stale copy
insert_tail_lossy(v, i) ==
    LET e == v[i]
        j == shift_pos(v, e, i - 1)
    IN  IF j = i - 1 THEN v
        ELSE SubSeq(v, 1, j) \o <<e>> \o SubSeq(v, j + 2, i) \o SubSeq(v, i + 1, Len(v))

\* v[1..i-1] is sorted; v[i] is moved left into its place
insert_tail(v, i) ==
    LET e == v[i]
        j == shift_pos(v, e, i - 1)
    IN  SubSeq(v, 1, j) \o <<e>> \o SubSeq(v, j + 1, i - 1) \o SubSeq(v, i + 1, Len(v))

RECURSIVE insertion_sort_from(_, _)
insertion_sort_from(v, i) ==
    IF i > Len(v) THEN v ELSE insertion_sort_from(insert_tail(v, i), i + 1)

sort_unstable_by(v) == IF Len(v) < 2 THEN v ELSE insertion_sort_from(v, 2)

-----------------------------------------------------------------------------
(* slice::binary_search_by.  The order of the entries under find_cmp       *)
(* against a prefix is not monotone (a strict ancestor of the prefix is    *)
(* Equal, keys between it and the prefix are Less), so the position        *)
(* returned depends on the probe sequence.  The standard library has       *)
(* shipped two probe sequences; a build uses one of them.                  *)

BinarySearchVariants == {"early_return", "branchless"}

Ok(i) == [found |-> TRUE, idx |-> i]

Err(i) == [found |-> FALSE, idx |-> i]

\* the comparison closure |item| find_cmp(&item.0, prefix) at source index i
probe(v, prefix, i) == find_cmp(v[i + 1][1], prefix)

RECURSIVE bs_early_return(_, _, _, _)
\* while left < right: probe the middle, return at the first Equal
bs_early_return(v, prefix, left, right) ==
    IF left >= right THEN Err(left)
    ELSE LET mid == left + ((right - left) \div 2)
             c == probe(v, prefix, mid)
         IN  IF c = "Less" THEN bs_early_return(v, prefix, mid + 1, right)
             ELSE IF c = "Greater" THEN bs_early_return(v, prefix, left, mid)
             ELSE Ok(mid)

RECURSIVE bs_base(_, _, _, _)
\* while size > 1: keep base on Greater, move it to mid otherwise
bs_base(v, prefix, base, size) ==
    IF size > 1
    THEN LET half == size \div 2
             mid == base + half
         IN  bs_base(v, prefix,
                     IF probe(v, prefix, mid) = "Greater" THEN base ELSE mid,
                     size - half)
    ELSE base

bs_branchless(v, prefix) ==
    IF Len(v) = 0 THEN Err(0)
    ELSE LET base == bs_base(v, prefix, 0, Len(v))
             c == probe(v, prefix, base)
         IN  IF c = "Equal" THEN Ok(base)
             ELSE Err(base + (IF c = "Less" THEN 1 ELSE 0))

binary_search_by(v, prefix, variant) ==
    IF variant = "early_return"
    THEN bs_early_return(v, prefix, 0, Len(v))
    ELSE bs_branchless(v, prefix)

-----------------------------------------------------------------------------
(* PrefixMatch::find *)

RECURSIVE walk_left_short(_, _, _)
\* a left walk that never looks at source index 0
walk_left_short(v, prefix, start) ==
    IF start > 1 /\ starts_with(v[start][1], prefix)
    THEN walk_left_short(v, prefix, start - 1)
    ELSE start

RECURSIVE walk_left(_, _, _)
\* while start > 0 && items[start - 1].0.starts_with(prefix): start -= 1
walk_left(v, prefix, start) ==
    IF start > 0 /\ starts_with(v[start][1], prefix)
    THEN walk_left(v, prefix, start - 1)
    ELSE start

RECURSIVE walk_right(_, _, _)
\* while end + 1 < items.len() && items[end + 1].0.starts_with(prefix): end += 1
walk_right(v, prefix, end) ==
    IF end + 1 < Len(v) /\ starts_with(v[end + 2][1], prefix)
    THEN walk_right(v, prefix, end + 1)
    ELSE end

\* Match { range: start..end }, with the outcome of the binary search kept
Match(start, end, found, mid) ==
    [start |-> start, end |-> end, found |-> found, mid |-> mid]

NoMatch == Match(0, 0, FALSE, 0)

find(v, prefix, variant) ==
    LET r == binary_search_by(v, prefix, variant)
    IN  IF ~r.found THEN Match(0, 0, FALSE, 0)
        ELSE Match(walk_left(v, prefix, r.idx),
                   walk_right(v, prefix, r.idx) + 1, TRUE, r.idx)

\* Match::iter: the entries of the range, in order
iter(m, v) == SubSeq(v, m.start + 1, m.end)

-----------------------------------------------------------------------------
(* The state machine *)

Call(op, key, meta, variant) ==
    [op |-> op, key |-> key, meta |-> meta, variant |-> variant]

RECURSIVE BagOfSeq(_)
BagOfSeq(v) ==
    IF v = <<>> THEN EmptyBag ELSE BagOfSeq(Tail(v)) (+) SetToBag({Head(v)})

\* PrefixMatch::default()
Init ==
    /\ items = <<>>
    /\ reorders = 0
    /\ inserted = EmptyBag
    /\ last = Call("default", <<>>, 0, "none")
    /\ result = NoMatch

Insert(s, meta) ==
    /\ Len(items) < MaxLen
    /\ items' = push(items, <<s, meta>>)
    /\ reorders' = 0
    /\ inserted' = inserted (+) SetToBag({<<s, meta>>})
    /\ last' = Call("insert", s, meta, "none")
    /\ result' = NoMatch

Reorder ==
    /\ items' = sort_unstable_by(items)
    /\ reorders' = Min(reorders + 1, MaxReorderCount)
    /\ last' = Call("reorder", <<>>, 0, "none")
    /\ result' = NoMatch
    /\ UNCHANGED inserted

Find(prefix, variant) ==
    /\ result' = find(items, prefix, variant)
    /\ last' = Call("find", prefix, 0, variant)
    /\ UNCHANGED <<items, reorders, inserted>>

InsertStep == \E s \in Keys, meta \in Meta : Insert(s, meta)

FindStep == \E prefix \in Keys, variant \in BinarySearchVariants : Find(prefix, variant)

Next == InsertStep \/ Reorder \/ FindStep

Spec == Init /\ [][Next]_vars

\* An index of up to MaxFindLen entries, just reordered, that is then queried
SeqsUpTo(n) == UNION {[1..k -> {<<s, 0>> : s \in Keys}] : k \in 0..n}

InitFind ==
    \E v \in SeqsUpTo(MaxFindLen) :
        /\ items = sort_unstable_by(v)
        /\ reorders = 1
        /\ inserted = BagOfSeq(v)
        /\ last = Call("reorder", <<>>, 0, "none")
        /\ result = NoMatch

SpecFind == InitFind /\ [][FindStep]_vars

reordered == reorders >= 1

-----------------------------------------------------------------------------
(* Vocabulary of the properties, stated without the comparators above *)

IsPrefixOf(p, s) == Len(p) <= Len(s) /\ SubSeq(s, 1, Len(p)) = p

IsStrictAncestor(s, p) == Len(s) < Len(p) /\ IsPrefixOf(s, p)

\* lexicographic order by scalar value, a shorter key before its extensions
LexLeq(a, b) ==
    \/ IsPrefixOf(a, b)
    \/ \E i \in 1..Min(Len(a), Len(b)) :
          /\ SubSeq(a, 1, i - 1) = SubSeq(b, 1, i - 1)
          /\ a[i] < b[i]

key(i) == items[i][1]

Positions == 1..Len(items)

\* positions of the returned range start..end (source indexes start..end-1)
InRange == (result.start + 1)..result.end

Block(p) == {i \in Positions : IsPrefixOf(p, key(i))}

Ancestors(p) == {i \in Positions : IsStrictAncestor(key(i), p)}

IsInterval(S) == \A i \in S, j \in S : \A k \in i..j : k \in S

\* a find has just been answered on a reordered index
Found == reordered /\ last.op = "find"

-----------------------------------------------------------------------------
(* C1 -- soundness of find: on a reordered index every entry of the range  *)
(* returned by find(prefix) has a key that starts with prefix.             *)
C1_Soundness ==
    Found => \A i \in InRange : IsPrefixOf(last.key, key(i))

(* C2 -- completeness of find: on a reordered index no entry outside the   *)
(* range returned by find(prefix) has a key that starts with prefix.       *)
C2_Completeness ==
    Found => \A i \in Positions \ InRange : ~IsPrefixOf(last.key, key(i))

(* C3 -- no-match law: on a reordered index where no stored key starts     *)
(* with prefix, find(prefix) returns an empty range.                       *)
C3_NoMatch ==
    (Found /\ Block(last.key) = {}) => result.start = result.end

(* C4 -- empty-prefix law: on a reordered index find("") returns 0..len   *)
(* and iterating it yields all the entries, in sorted order.               *)
C4_EmptyPrefix ==
    (Found /\ last.key = <<>>) =>
        /\ result.start = 0
        /\ result.end = Len(items)
        /\ iter(result, items) = items
        /\ \A i \in 1..(Len(items) - 1) : LexLeq(key(i), key(i + 1))

C4_Witness ==
    /\ Found
    /\ last.key = <<>>
    /\ Len(items) = MaxLen
    /\ result.end = MaxLen
    /\ \E i \in Positions : key(i) # key(1)

(* C5 -- sorted invariant: whenever reorder has been called and no insert  *)
(* has occurred since, the entries are non-decreasing in lexicographic     *)
(* order with a shorter key before any key it is a prefix of.              *)
C5_Sorted ==
    reordered => \A i \in 1..(Len(items) - 1) : LexLeq(key(i), key(i + 1))

C5_Witness ==
    /\ reordered
    /\ last.op = "reorder"
    /\ Len(items) = MaxLen
    /\ \E i \in 1..(Len(items) - 1) : IsStrictAncestor(key(i), key(i + 1))
    /\ items[1][2] > items[2][2]

(* C6 -- idempotence of reorder: a reorder called on an index that was     *)
(* reordered with no insert since leaves every entry at its position.      *)
C6_Idempotent ==
    [][(reordered /\ last'.op = "reorder") => items' = items]_vars

C6_Witness ==
    /\ reorders = MaxReorderCount
    /\ last.op = "reorder"
    /\ \E i \in Positions, j \in Positions :
          i # j /\ key(i) = key(j) /\ items[i][2] # items[j][2]

(* C7 -- insert appends and changes nothing else: the length grows by one, *)
(* the new (key, metadata) is at the last position, also when the key is   *)
(* already stored, and every earlier entry keeps its position.             *)
C7_InsertAppends ==
    [][last'.op = "insert" =>
          /\ Len(items') = Len(items) + 1
          /\ items'[Len(items')] = <<last'.key, last'.meta>>
          /\ \A i \in 1..Len(items) : items'[i] = items[i]]_vars

C7_Witness ==
    /\ last.op = "insert"
    /\ Len(items) >= 2
    /\ \E i \in 1..(Len(items) - 1) : key(i) = last.key
    /\ \E i \in 1..(Len(items) - 2) : ~LexLeq(key(i), key(i + 1))

(* C8 -- reorder is a permutation and find is read-only: the bag of stored *)
(* (key, metadata) pairs is always the bag of pairs inserted so far, and   *)
(* find leaves the entry sequence as it is.                                *)
C8_Permutation ==
    /\ [](BagOfSeq(items) = inserted)
    /\ [][last'.op = "find" => items' = items]_vars

C8_Witness ==
    /\ last.op = "find"
    /\ reordered
    /\ Len(items) = MaxLen
    /\ items[1][2] > items[2][2]
    /\ key(1) # key(2)
    /\ BagOfSeq(items) = inserted

(* C9 -- binary-search seeding: on a reordered index find(prefix) returns  *)
(* a non-empty range holding the found position if some key compares Equal *)
(* to prefix under the match comparator, and 0..0 exactly when none does.  *)
SomeEqual == \E i \in Positions : IsPrefixOf(key(i), last.key) \/ IsPrefixOf(last.key, key(i))

C9_Seeding ==
    Found =>
        /\ SomeEqual =>
              /\ result.found
              /\ result.start <= result.mid
              /\ result.mid < result.end
        /\ (result.start = 0 /\ result.end = 0) <=> ~SomeEqual

(* C10 -- block layout: on a reordered index, for every prefix, the keys   *)
(* that start with prefix occupy one contiguous block of positions, and    *)
(* every strict ancestor of prefix lies outside the block and before it.   *)
C10_Layout ==
    reordered =>
        \A p \in Keys :
            /\ IsInterval(Block(p))
            /\ \A a \in Ancestors(p) : a \notin Block(p) /\ \A b \in Block(p) : a < b

\* C10 as first stated: every strict ancestor is immediately adjacent to
\* the block, nothing but other ancestors standing between the two
C10_Adjacent ==
    reordered =>
        \A p \in Keys :
            /\ IsInterval(Block(p))
            /\ \A a \in Ancestors(p) : \A b \in Block(p) :
                  /\ a < b
                  /\ \A k \in (a + 1)..(b - 1) : k \in Ancestors(p) \cup Block(p)

C10_Witness ==
    /\ reordered
    /\ last.op = "reorder"
    /\ \E p \in Keys : \E a \in Ancestors(p) : \E b \in Block(p) :
          a + 1 < b /\ (a + 1) \notin Ancestors(p) \cup Block(p)

=============================================================================
